---- MODULE Spec2Model ----
(***************************************************************************)
(* A model of the query clients of pnwstore_nates:                         *)
(*   msiclient/client.py   wildcard_mapper, WaveformClient.get_waveforms,  *)
(*                         WaveformClient.get_waveforms_bulk               *)
(*   pnwstore/catalog.py   QuakeClient.query, PickClient.query             *)
(* A Python str is a sequence of one-character strings.  An SQL statement  *)
(* is the sequence of its tokens; the database is modelled by an evaluator *)
(* of such token sequences against the rows of the index table.            *)
(***************************************************************************)
EXTENDS Integers, Sequences, FiniteSets, TLC

(***************************************************************************)
(* Bounds of the model.                                                    *)
(***************************************************************************)
\* longest identifier filter given to wildcard_mapper / get_waveforms
MaxLen == 3
\* longest list given to get_waveforms_bulk
MaxBulk == 3
\* most keyword filters in one query call
MaxKw == 2
\* most query calls in a row on the catalog clients
MaxCalls == 3
\* requested start and end times range over 0..MaxTime
MaxTime == 3

VARIABLES
    m_c,        \* wildcard_mapper: the argument c
    m_out,      \* wildcard_mapper: the returned string
    m_done,     \* wildcard_mapper: TRUE once it has returned
    files,      \* the segment files on disk: file name -> "ok", "missing", "unreadable", "corrupt"
    debugger,   \* what breakpoint() does in this process: "continue" or "quit"
    w_called,   \* TRUE once get_waveforms has been called
    w_args,     \* the arguments of the get_waveforms call
    w_ret,      \* what the get_waveforms call did and returned
    b_called,   \* TRUE once get_waveforms_bulk has been called
    b_args,     \* the arguments of the get_waveforms_bulk call
    b_ret,      \* what the get_waveforms_bulk call did and returned
    q_keys,     \* QuakeClient._keys: whether the attribute is set, and its value
    p_keys,     \* PickClient._keys: whether the attribute is set, and its value
    shows,      \* per client, the SHOW COLUMNS statements the database has answered
    calls,      \* the query calls made so far on the two catalog clients
    c_client,   \* the client of the last query call: "quake", "pick" or "none"
    c_args,     \* the arguments of the last query call
    c_ret       \* what the last query call did and returned

vars == <<m_c, m_out, m_done, files, debugger, w_called, w_args, w_ret,
          b_called, b_args, b_ret, q_keys, p_keys, shows, calls, c_client, c_args, c_ret>>

mapperVars  == <<m_c, m_out, m_done>>
diskVars    == <<files, debugger>>
waveVars    == <<w_called, w_args, w_ret>>
bulkVars    == <<b_called, b_args, b_ret>>
catalogVars == <<q_keys, p_keys, shows, calls, c_client, c_args, c_ret>>

(***************************************************************************)
(* Python str operations.                                                  *)
(***************************************************************************)
\* `ch in s`
Contains(s, ch) == \E i \in 1..Len(s) : s[i] = ch

\* s.replace(old, new) with one-character old and new: every occurrence
Replace(s, old, new) == [i \in 1..Len(s) |-> IF s[i] = old THEN new ELSE s[i]]

\* index of the first occurrence of ch in s (s contains ch)
FirstIndex(s, ch) == CHOOSE i \in 1..Len(s) : s[i] = ch /\ \A j \in 1..(i-1) : s[j] # ch

\* s.split(sep) with a one-character sep: never empty, keeps empty elements
RECURSIVE Split(_, _)
Split(s, sep) ==
    IF ~Contains(s, sep) THEN <<s>>
    ELSE LET i == FirstIndex(s, sep)
         IN  <<SubSeq(s, 1, i-1)>> \o Split(SubSeq(s, i+1, Len(s)), sep)

\* all strings over alphabet of length at most n
RECURSIVE StrsOfLen(_, _)
StrsOfLen(alphabet, n) ==
    IF n = 0 THEN {<<>>}
    ELSE {<<a>> \o s : a \in alphabet, s \in StrsOfLen(alphabet, n-1)}

Strs(alphabet, n) == UNION {StrsOfLen(alphabet, k) : k \in 0..n}

(***************************************************************************)
(* wildcard_mapper (client.py 47-52).                                      *)
(***************************************************************************)
\* a mapper that translates only the first `*` and the first `?`
wildcard_mapper_first(c) ==
    LET c1 == IF Contains(c, "*")
              THEN [c EXCEPT ![FirstIndex(c, "*")] = "%"] ELSE c
    IN  IF Contains(c1, "?")
        THEN [c1 EXCEPT ![FirstIndex(c1, "?")] = "_"] ELSE c1

wildcard_mapper(c) ==
    LET c1 == IF Contains(c, "*") THEN Replace(c, "*", "%") ELSE c
    IN  IF Contains(c1, "?") THEN Replace(c1, "?", "_") ELSE c1

(***************************************************************************)
(* SQL statements as token sequences, and the database that runs them.     *)
(* A token is a comparison  k op 'v'  or one of  (  )  OR  AND.            *)
(***************************************************************************)
Cmp(k, op, v) == [t |-> "cmp", k |-> k, op |-> op, v |-> v]
Sym(s)        == [t |-> s, k |-> "", op |-> "", v |-> <<>>]

\* sep.join(units): the units' tokens with the token sep between two units
RECURSIVE Join(_, _)
Join(units, sep) ==
    IF units = <<>> THEN <<>>
    ELSE IF Len(units) = 1 THEN units[1]
    ELSE units[1] \o <<Sym(sep)>> \o Join(Tail(units), sep)

\* f"{t}" of a timestamp: fixed width, so that text order is time order
Digits == <<"0", "1", "2", "3", "4", "5", "6", "7", "8", "9">>
FmtTime(t) == <<Digits[(t \div 10) + 1], Digits[(t % 10) + 1]>>

\* the order of SQL text values
CharOrd(ch) == CHOOSE n \in 1..10 : Digits[n] = ch
TextLess(a, b) ==
    \/ \E i \in 1..Len(a) :
          /\ i <= Len(b)
          /\ CharOrd(a[i]) < CharOrd(b[i])
          /\ \A j \in 1..(i-1) : a[j] = b[j]
    \/ (Len(a) < Len(b) /\ \A j \in 1..Len(a) : a[j] = b[j])

\* SQL  s LIKE p : % is any run of characters, _ any one character
RECURSIVE Like(_, _)
Like(s, p) ==
    IF p = <<>> THEN s = <<>>
    ELSE IF Head(p) = "%"
    THEN Like(s, Tail(p)) \/ (s # <<>> /\ Like(Tail(s), p))
    ELSE s # <<>> /\ (Head(p) = "_" \/ Head(p) = Head(s)) /\ Like(Tail(s), Tail(p))

EvalCmp(tok, row) ==
    CASE tok.op = "="    -> row[tok.k] = tok.v
      [] tok.op = "LIKE" -> Like(row[tok.k], tok.v)
      [] tok.op = ">"    -> TextLess(tok.v, row[tok.k])
      [] tok.op = "<"    -> TextLess(row[tok.k], tok.v)
      [] tok.op = ">="   -> ~TextLess(row[tok.k], tok.v)
      [] tok.op = "<="   -> ~TextLess(tok.v, row[tok.k])
      [] OTHER           -> FALSE

\* the pieces of toks between the tokens sep that are outside all parentheses:
\* a scan from token i, at nesting depth d, of the piece that began at from
RECURSIVE SplitTopFrom(_, _, _, _, _)
SplitTopFrom(toks, sep, i, d, from) ==
    IF i > Len(toks) THEN <<SubSeq(toks, from, Len(toks))>>
    ELSE IF toks[i].t = sep /\ d = 0
    THEN <<SubSeq(toks, from, i-1)>> \o SplitTopFrom(toks, sep, i+1, 0, i+1)
    ELSE SplitTopFrom(toks, sep, i+1,
                      IF toks[i].t = "(" THEN d+1 ELSE IF toks[i].t = ")" THEN d-1 ELSE d,
                      from)

SplitTop(toks, sep) == SplitTopFrom(toks, sep, 1, 0, 1)

\* a WHERE clause on a row: AND binds tighter than OR, parentheses group
RECURSIVE EvalExpr(_, _)
RECURSIVE EvalTerm(_, _)
RECURSIVE EvalFactor(_, _)
EvalExpr(toks, row) ==
    LET parts == SplitTop(toks, "OR")
    IN  \E n \in 1..Len(parts) : EvalTerm(parts[n], row)
EvalTerm(toks, row) ==
    LET parts == SplitTop(toks, "AND")
    IN  \A n \in 1..Len(parts) : EvalFactor(parts[n], row)
EvalFactor(toks, row) ==
    IF Len(toks) = 1 /\ toks[1].t = "cmp" THEN EvalCmp(toks[1], row)
    ELSE IF Len(toks) >= 3 /\ toks[1].t = "(" /\ toks[Len(toks)].t = ")"
    THEN EvalExpr(SubSeq(toks, 2, Len(toks) - 1), row)
    ELSE FALSE

(***************************************************************************)
(* The tsindex table and the segment files it points to.                   *)
(***************************************************************************)
IndexRow(i, net, sta, loc, cha, qual, t0, t1, file) ==
    [id |-> i, network |-> net, station |-> sta, location |-> loc, channel |-> cha,
     quality |-> qual, starttime |-> FmtTime(t0), endtime |-> FmtTime(t1),
     t0 |-> t0, t1 |-> t1, filename |-> file]

tsindex ==
    << IndexRow(1, <<"U">>, <<"A", "A">>, <<"0">>, <<"Z">>, <<"D">>, 0, 1, "f1"),
       IndexRow(2, <<"U">>, <<"A", "B">>, <<"0">>, <<"Z">>, <<"D">>, 1, 3, "f2"),
       IndexRow(3, <<"C">>, <<"B">>,      <<"0">>, <<"N">>, <<"M">>, 2, 3, "f3") >>

FileNames == {tsindex[i].filename : i \in 1..Len(tsindex)}

\* cursor.execute(SELECT ... FROM tsindex WHERE where): the rows, in table order
RECURSIVE SelectRows(_, _)
SelectRows(rows, where) ==
    IF rows = <<>> THEN <<>>
    ELSE (IF EvalExpr(where, Head(rows)) THEN <<Head(rows)>> ELSE <<>>)
         \o SelectRows(Tail(rows), where)

(***************************************************************************)
(* WaveformClient.get_waveforms (client.py 74-222).                        *)
(***************************************************************************)
\* Python optional values
NoneVal == [none |-> TRUE, s |-> <<>>]
Str(s)  == [none |-> FALSE, s |-> s]

\* a requested time: an obspy.UTCDateTime ("utc") or a bare number ("num")
Utc(t) == [ty |-> "utc", t |-> t]
Num(t) == [ty |-> "num", t |-> t]

\* lines 137-141: one element of a comma-delimited value
RenderElement(k, w) ==
    IF Contains(w, "%") \/ Contains(w, "_") THEN Cmp(k, "LIKE", w) ELSE Cmp(k, "=", w)

\* line 144 without its parentheses
OrGroupBare(k, elems) ==
    Join([n \in 1..Len(elems) |-> <<RenderElement(k, elems[n])>>], "OR")

\* line 144: '(' + ' OR '.join(_u) + ')'
OrGroup(k, elems) ==
    <<Sym("(")>> \o Join([n \in 1..Len(elems) |-> <<RenderElement(k, elems[n])>>], "OR")
                 \o <<Sym(")")>>

\* lines 126-150: the unit of one of network, station, location, channel
CompileField(k, raw) ==
    LET haswild == Contains(raw, "?") \/ Contains(raw, "*")
        v       == IF haswild THEN wildcard_mapper(raw) ELSE raw
    IN  IF Contains(v, ",") THEN OrGroup(k, Split(v, ","))
        ELSE IF haswild THEN <<Cmp(k, "LIKE", v)>>
        ELSE <<Cmp(k, "=", v)>>

\* lines 157, 163 with >= and <= for > and <
TimeConditionsClosed(starttime, endtime) ==
    << <<Cmp("endtime", ">=", FmtTime(starttime.t))>>,
       <<Cmp("starttime", "<=", FmtTime(endtime.t))>> >>

\* lines 157, 163: endtime>"{starttime}" and starttime<"{endtime}"
TimeConditions(starttime, endtime) ==
    << <<Cmp("endtime", ">", FmtTime(starttime.t))>>,
       <<Cmp("starttime", "<", FmtTime(endtime.t))>> >>

NSLCKeys == <<"network", "station", "location", "channel">>

\* lines 123-173: the WHERE clause of the statement
CompileWhere(a) ==
    Join([n \in 1..4 |-> CompileField(NSLCKeys[n], a[NSLCKeys[n]])]
         \o TimeConditions(a.starttime, a.endtime)
         \o (IF a.quality.none THEN <<>> ELSE << <<Cmp("quality", "=", a.quality.s)>> >>),
         "AND")

\* obspy.read(buff, starttime, endtime): the row's segment cut to the window
Max(x, y) == IF x >= y THEN x ELSE y
Min(x, y) == IF x <= y THEN x ELSE y
Decode(row, starttime, endtime) ==
    [id |-> row.id, t0 |-> Max(row.t0, starttime.t), t1 |-> Min(row.t1, endtime.t)]

\* lines 178-186: the loop over the matched rows.  open() and f.read() are
\* outside the try and raise; a decode error reaches breakpoint(), which
\* returns (the row is skipped without a word) or ends the call with BdbQuit.
RECURSIVE ReadSegments(_, _, _, _, _)
ReadSegments(rows, a, fs, bp, acc) ==
    IF rows = <<>> \/ acc.exc # "" THEN acc
    ELSE LET r    == Head(rows)
             seen == [acc EXCEPT !.opened = Append(@, r.filename)]
             next == CASE fs[r.filename] = "missing"    -> [seen EXCEPT !.exc = "FileNotFoundError"]
                       [] fs[r.filename] = "unreadable" -> [seen EXCEPT !.exc = "OSError"]
                       [] fs[r.filename] = "corrupt"    ->
                              IF bp = "continue" THEN seen ELSE [seen EXCEPT !.exc = "BdbQuit"]
                       [] OTHER -> [seen EXCEPT !.st = Append(@, Decode(r, a.starttime, a.endtime))]
         IN  ReadSegments(Tail(rows), a, fs, bp, next)

\* line 12: the names the module imports; Path is not one of them
ImportedNames == {"sqlite3", "io", "obspy", "os", "warnings", "pd"}

\* the file system and the objects the optional steps meet
WritablePaths == {"out.mseed"}
ReadableInventories == {"sta.xml"}
InventoryType(inv) ==
    CASE inv = "Inventory" -> "Inventory"
      [] inv \in {"sta.xml", "missing.xml"} -> "str"
      [] OTHER -> "int"

Warning(msg, ref) == [msg |-> msg, ref |-> ref]

Outcome(status, exc, st, executed, opened, warned, attached, written) ==
    [status |-> status, exc |-> exc, stream |-> st, executed |-> executed,
     opened |-> opened, warnings |-> warned, attached |-> attached, written |-> written]

Raise(exc, executed, opened, warned) ==
    Outcome("raised", exc, <<>>, executed, opened, warned, FALSE, FALSE)

\* lines 199-212: attach_response; [exc, warned, attached]
AttachResponse(a) ==
    LET none == [exc |-> "", warned |-> <<>>, attached |-> FALSE]
    IN  IF ~a.attach_response \/ a.inventory = "absent" THEN none
        ELSE IF InventoryType(a.inventory) = "Inventory" THEN [none EXCEPT !.attached = TRUE]
        ELSE IF "Path" \notin ImportedNames THEN [none EXCEPT !.exc = "NameError"]
        ELSE IF InventoryType(a.inventory) = "str"
        THEN IF a.inventory \in ReadableInventories
             THEN [none EXCEPT !.attached = TRUE]
             ELSE [none EXCEPT !.warned = <<Warning("inventory error", 0)>>,
                               !.exc = "UnboundLocalError"]
        ELSE [none EXCEPT !.warned = <<Warning("inventory does not look like an Inventory", 0)>>]

\* lines 214-220: st.write(filename) inside try/except; [warned, written]
\* obspy refuses to write an empty stream
WriteStream(filename, st) ==
    IF filename = "None" THEN [warned |-> <<>>, written |-> FALSE]
    ELSE IF filename \in WritablePaths /\ st # <<>>
    THEN [warned |-> <<>>, written |-> TRUE]
    ELSE [warned |-> <<Warning("write failed", 0)>>, written |-> FALSE]

SelectStatement(where) ==
    [sql |-> "SELECT byteoffset, bytes, filename FROM tsindex WHERE", where |-> where]

\* line 120 with the comparison turned around
StartAfterEndSwapped(a) == a.endtime.t > a.starttime.t

\* line 120: starttime > endtime
StartAfterEnd(a) == a.starttime.t > a.endtime.t

\* the whole call: a its arguments, fs the files, bp what breakpoint() does
GetWaveformsResult(a, fs, bp) ==
    IF StartAfterEnd(a) THEN Raise("ValueError", <<>>, <<>>, <<>>)
    ELSE IF a.starttime.ty \notin {"str", "utc"} THEN Raise("TypeError", <<>>, <<>>, <<>>)
    ELSE IF a.endtime.ty \notin {"str", "utc"} THEN Raise("TypeError", <<>>, <<>>, <<>>)
    ELSE
    LET stmt == SelectStatement(CompileWhere(a))
        rst  == SelectRows(tsindex, stmt.where)
        rd   == ReadSegments(rst, a, fs, bp, [st |-> <<>>, opened |-> <<>>, exc |-> ""])
    IN  IF rd.exc # "" THEN Raise(rd.exc, <<stmt>>, rd.opened, <<>>)
        ELSE IF a.minimumlength # "None" THEN Raise("NotImplementedError", <<stmt>>, rd.opened, <<>>)
        ELSE IF a.longestonly # "None" THEN Raise("NotImplementedError", <<stmt>>, rd.opened, <<>>)
        ELSE
        LET att == AttachResponse(a)
        IN  IF att.exc # "" THEN Raise(att.exc, <<stmt>>, rd.opened, att.warned)
            ELSE
            LET wr == WriteStream(a.filename, rd.st)
            IN  Outcome("returned", "", rd.st, <<stmt>>, rd.opened,
                        att.warned \o wr.warned, att.attached, wr.written)

NoArgs ==
    [network |-> <<>>, station |-> <<>>, location |-> <<>>, channel |-> <<>>,
     starttime |-> Utc(0), endtime |-> Utc(0), quality |-> NoneVal,
     minimumlength |-> "None", longestonly |-> "None", filename |-> "None",
     attach_response |-> FALSE, inventory |-> "absent"]

NoOutcome == Outcome("none", "", <<>>, <<>>, <<>>, <<>>, FALSE, FALSE)

(***************************************************************************)
(* WaveformClient.get_waveforms_bulk (client.py 226-250).                  *)
(***************************************************************************)
\* get_waveforms(*_b, **kwargs): the six positional values of the tuple,
\* the keyword arguments of the bulk call (filename popped, line 233)
SubRequest(b, kw) ==
    [NoArgs EXCEPT !.network = b[1], !.station = b[2], !.location = b[3],
                   !.channel = b[4], !.starttime = b[5], !.endtime = b[6],
                   !.attach_response = kw.attach_response, !.inventory = kw.inventory]

\* lines 238-243 with the first failure ending the loop
BulkStepBreak(acc, n, r) ==
    IF acc.stopped THEN acc
    ELSE IF r.status = "raised"
    THEN [acc EXCEPT !.executed = @ \o r.executed, !.opened = @ \o r.opened,
                     !.warnings = @ \o r.warnings \o <<Warning("failed to run request", n)>>,
                     !.stopped = TRUE]
    ELSE [acc EXCEPT !.st = @ \o r.stream,
                     !.executed = @ \o r.executed, !.opened = @ \o r.opened,
                     !.warnings = @ \o r.warnings]

\* lines 238-243: one turn of the loop, r what get_waveforms did for tuple n
BulkStep(acc, n, r) ==
    IF r.status = "raised"
    THEN [acc EXCEPT !.executed = @ \o r.executed, !.opened = @ \o r.opened,
                     !.warnings = @ \o r.warnings \o <<Warning("failed to run request", n)>>]
    ELSE [acc EXCEPT !.st = @ \o r.stream,
                     !.executed = @ \o r.executed, !.opened = @ \o r.opened,
                     !.warnings = @ \o r.warnings]

\* lines 237-243: the loop over bulk, from tuple n on
RECURSIVE BulkLoop(_, _, _, _, _, _)
BulkLoop(bulk, kw, fs, bp, n, acc) ==
    IF n > Len(bulk) THEN acc
    ELSE BulkLoop(bulk, kw, fs, bp, n + 1,
                  BulkStep(acc, n, GetWaveformsResult(SubRequest(bulk[n], kw), fs, bp)))

\* the whole call.  When bulk is no list, st and fn are never bound and the
\* test of fn on line 244 raises.
GetWaveformsBulkResult(bulk, kw, fs, bp) ==
    IF ~kw.is_list THEN Raise("UnboundLocalError", <<>>, <<>>, <<>>)
    ELSE
    LET acc == BulkLoop(bulk, kw, fs, bp, 1,
                        [st |-> <<>>, executed |-> <<>>, opened |-> <<>>,
                         warnings |-> <<>>, stopped |-> FALSE])
        wr  == IF kw.filename = "None" THEN [warned |-> <<>>, written |-> FALSE]
               ELSE IF kw.filename \in WritablePaths /\ acc.st # <<>>
               THEN [warned |-> <<>>, written |-> TRUE]
               ELSE [warned |-> <<Warning("failed to save bulk stream", 0)>>, written |-> FALSE]
    IN  Outcome("returned", "", acc.st, acc.executed, acc.opened,
                acc.warnings \o wr.warned, FALSE, wr.written)

NoBulkArgs ==
    [bulk |-> <<>>,
     kw |-> [is_list |-> TRUE, filename |-> "None", attach_response |-> FALSE,
             inventory |-> "absent"]]

BulkIdle ==
    /\ b_called = FALSE
    /\ b_args = NoBulkArgs
    /\ b_ret = NoOutcome

(***************************************************************************)
(* QuakeClient.query and PickClient.query (catalog.py 20-89, 116-188).     *)
(***************************************************************************)
\* a keyword value: a str, an obspy.UTCDateTime or a number
StrVal(s) == [ty |-> "str", s |-> s, t |-> 0]
UtcVal(t) == [ty |-> "utc", s |-> <<>>, t |-> t]
NumVal(t) == [ty |-> "num", s |-> <<>>, t |-> t]

\* f"{_i}": the text an interpolated value leaves in the statement
Text(val) == IF val.ty = "str" THEN val.s ELSE FmtTime(val.t)

\* str.upper()
Upper(s) == [i \in 1..Len(s) |-> IF s[i] = "p" THEN "P" ELSE IF s[i] = "s" THEN "S" ELSE s[i]]

\* the columns SHOW COLUMNS reports
TableColumns(table) ==
    IF table = "catalog" THEN <<"source_id", "timestamp", "contributor">>
    ELSE <<"station", "phase", "timestamp">>

Statement(sql, table, cols, where) ==
    [sql |-> sql, table |-> table, cols |-> cols, where |-> where]

KeysUnset   == [set |-> FALSE, keys |-> <<>>]
KeysOf(tbl) == [set |-> TRUE, keys |-> TableColumns(tbl)]

\* lines 21, 117 with the test never true
HasKeysNever(cache) == FALSE

\* lines 21, 117: hasattr(self, "_keys")
HasKeys(cache) == cache.set

\* lines 20-25, 116-121: the column list, discovered when it is not cached.
\* db says which execute() the database refuses: "up", "show", "select".
EnsureKeys(cache, table, db) ==
    IF HasKeys(cache) THEN [cache |-> cache, executed |-> <<>>, exc |-> "", shown |-> 0]
    ELSE IF db = "show"
    THEN [cache |-> cache, executed |-> <<Statement("SHOW COLUMNS", table, <<>>, <<>>)>>,
          exc |-> "mysql.connector.Error", shown |-> 0]
    ELSE [cache |-> KeysOf(table), executed |-> <<Statement("SHOW COLUMNS", table, <<>>, <<>>)>>,
          exc |-> "", shown |-> 1]

\* lines 29-35, 124-130: the column part of the SELECT
QueryKey(keys) ==
    IF keys.isstr THEN keys.cols
    ELSE IF Len(keys.cols) > 0 THEN keys.cols ELSE <<"*">>

\* lines 86-89, 185-188: the columns of the returned frame
FrameColumns(keys, cache) ==
    IF \E i \in 1..Len(QueryKey(keys)) : QueryKey(keys)[i] = "*" THEN cache.keys ELSE keys.cols

QueryOutcome(status, exc, executed, columns, printed) ==
    [status |-> status, exc |-> exc, executed |-> executed, columns |-> columns,
     printed |-> printed]

\* lines 41-50: obspy.UTCDateTime(_i) of a value that is no UTCDateTime;
\* the strings of the model are no dates
TimestampOf(val) == IF val.ty = "str" THEN [exc |-> "ValueError", t |-> 0]
                    ELSE [exc |-> "", t |-> val.t]

QuakeRangeKeys ==
    [minlatitude |-> <<"latitude", ">=">>, maxlatitude |-> <<"latitude", "<=">>,
     minlongitude |-> <<"longitude", ">=">>, maxlongitude |-> <<"longitude", "<=">>,
     mindepth |-> <<"depth", ">=">>, maxdepth |-> <<"depth", "<=">>,
     minmagnitude |-> <<"magnitude", ">=">>, maxmagnitude |-> <<"magnitude", "<=">>]

\* lines 40-72: one keyword of QuakeClient.query; [qs, exc, printed]
QuakeFilter(acc, k, val) ==
    IF k \in {"mintime", "maxtime"}
    THEN IF TimestampOf(val).exc # "" THEN [acc EXCEPT !.exc = TimestampOf(val).exc]
         ELSE [acc EXCEPT !.qs = Append(@, <<Cmp("timestamp",
                                  IF k = "mintime" THEN ">=" ELSE "<=",
                                  FmtTime(TimestampOf(val).t))>>)]
    ELSE IF k = "contributor"
    THEN [acc EXCEPT !.qs = Append(@, <<Cmp("contributor", "=", Text(val))>>)]
    ELSE IF k \in DOMAIN QuakeRangeKeys
    THEN [acc EXCEPT !.qs = Append(@, <<Cmp(QuakeRangeKeys[k][1], QuakeRangeKeys[k][2], Text(val))>>)]
    ELSE IF k \in {"source_id", "event_type"}
    THEN [acc EXCEPT !.qs = Append(@, <<Cmp(k, "=", Text(val))>>)]
    ELSE [acc EXCEPT !.printed = Append(@, k)]

RECURSIVE QuakeFilters(_, _, _)
QuakeFilters(kwargs, n, acc) ==
    IF n > Len(kwargs) \/ acc.exc # "" THEN acc
    ELSE QuakeFilters(kwargs, n + 1, QuakeFilter(acc, kwargs[n].k, kwargs[n].v))

\* QuakeClient.query(keys, **kwargs); [cache, shown, out]
QuakeQueryResult(r, cache, db) ==
    LET ek == EnsureKeys(cache, "catalog", db)
    IN  IF ek.exc # ""
        THEN [cache |-> ek.cache, shown |-> ek.shown,
              out |-> QueryOutcome("raised", ek.exc, ek.executed, <<>>, <<>>)]
        ELSE
        LET f    == QuakeFilters(r.kwargs, 1, [qs |-> <<>>, exc |-> "", printed |-> <<>>])
            stmt == Statement("SELECT", "catalog", QueryKey(r.keys), Join(f.qs, "and"))
        IN  [cache |-> ek.cache, shown |-> ek.shown,
             out |-> IF f.exc # ""
                     THEN QueryOutcome("raised", f.exc, ek.executed, <<>>, f.printed)
                     ELSE IF db = "select"
                     THEN QueryOutcome("raised", "mysql.connector.Error",
                                       ek.executed \o <<stmt>>, <<>>, f.printed)
                     ELSE QueryOutcome("returned", "", ek.executed \o <<stmt>>,
                                       FrameColumns(r.keys, ek.cache), f.printed)]

PickEqualityKeys == {"station", "network", "location", "channel", "evaluation_mode", "source_id"}

\* lines 136-170 without the test of line 138
PickFilterUnchecked(acc, k, val) ==
    IF val.ty = "str"
    THEN IF k \in PickEqualityKeys \/ k = "phase"
         THEN LET q == IF ~Contains(val.s, "?") /\ ~Contains(val.s, "*")
                       THEN <<Cmp(k, "=", IF k = "phase" THEN Upper(val.s) ELSE val.s)>>
                       ELSE <<Cmp(k, "LIKE", wildcard_mapper(val.s))>>
              IN  [acc EXCEPT !.q = q, !.bound = TRUE, !.qs = Append(@, q)]
         ELSE [acc EXCEPT !.exc = "ValueError: Unsupported query key"]
    ELSE IF val.ty = "utc"
    THEN IF k \in {"mintime", "maxtime"}
         THEN LET q == <<Cmp("timestamp", IF k = "mintime" THEN ">=" ELSE "<=", FmtTime(val.t))>>
              IN  [acc EXCEPT !.q = q, !.bound = TRUE, !.qs = Append(@, q)]
         ELSE IF acc.bound THEN [acc EXCEPT !.qs = Append(@, acc.q)]
         ELSE [acc EXCEPT !.exc = "UnboundLocalError"]
    ELSE [acc EXCEPT !.exc = "ValueError: Unsupported query key"]

\* lines 136-170: one keyword of PickClient.query; [qs, q, bound, exc].
\* _q is the loop's local: a UTCDateTime under another key than mintime and
\* maxtime assigns nothing to it, and line 168 appends what it held before.
PickFilter(acc, k, val) ==
    IF val.ty = "str"
    THEN IF Contains(val.s, "_") \/ Contains(val.s, "%") \/ Contains(val.s, "-")
         THEN [acc EXCEPT !.exc = "ValueError: Only wildcards ? and * are supported."]
         ELSE IF k \in PickEqualityKeys \/ k = "phase"
         THEN LET q == IF ~Contains(val.s, "?") /\ ~Contains(val.s, "*")
                       THEN <<Cmp(k, "=", IF k = "phase" THEN Upper(val.s) ELSE val.s)>>
                       ELSE <<Cmp(k, "LIKE", wildcard_mapper(val.s))>>
              IN  [acc EXCEPT !.q = q, !.bound = TRUE, !.qs = Append(@, q)]
         ELSE [acc EXCEPT !.exc = "ValueError: Unsupported query key"]
    ELSE IF val.ty = "utc"
    THEN IF k \in {"mintime", "maxtime"}
         THEN LET q == <<Cmp("timestamp", IF k = "mintime" THEN ">=" ELSE "<=", FmtTime(val.t))>>
              IN  [acc EXCEPT !.q = q, !.bound = TRUE, !.qs = Append(@, q)]
         ELSE IF acc.bound THEN [acc EXCEPT !.qs = Append(@, acc.q)]
         ELSE [acc EXCEPT !.exc = "UnboundLocalError"]
    ELSE [acc EXCEPT !.exc = "ValueError: Unsupported query key"]

RECURSIVE PickFilters(_, _, _)
PickFilters(kwargs, n, acc) ==
    IF n > Len(kwargs) \/ acc.exc # "" THEN acc
    ELSE PickFilters(kwargs, n + 1, PickFilter(acc, kwargs[n].k, kwargs[n].v))

\* line 114: the table of the contributor the client was built for
PickTable == "picks_uw"

\* PickClient.query(keys, **kwargs); [cache, shown, out]
PickQueryResult(r, cache, db) ==
    LET ek == EnsureKeys(cache, PickTable, db)
    IN  IF ek.exc # ""
        THEN [cache |-> ek.cache, shown |-> ek.shown,
              out |-> QueryOutcome("raised", ek.exc, ek.executed, <<>>, <<>>)]
        ELSE
        LET f    == PickFilters(r.kwargs, 1, [qs |-> <<>>, q |-> <<>>, bound |-> FALSE, exc |-> ""])
            stmt == Statement("SELECT", PickTable, QueryKey(r.keys), Join(f.qs, "AND"))
        IN  [cache |-> ek.cache, shown |-> ek.shown,
             out |-> IF f.exc # ""
                     THEN QueryOutcome("raised", f.exc, ek.executed, <<>>, <<>>)
                     ELSE IF db = "select"
                     THEN QueryOutcome("raised", "mysql.connector.Error",
                                       ek.executed \o <<stmt>>, <<>>, <<>>)
                     ELSE QueryOutcome("returned", "", ek.executed \o <<stmt>>,
                                       FrameColumns(r.keys, ek.cache), <<>>)]

NoQuery == [keys |-> [isstr |-> TRUE, cols |-> <<"*">>], kwargs |-> <<>>, db |-> "up"]

CatalogIdle ==
    /\ q_keys = KeysUnset
    /\ p_keys = KeysUnset
    /\ shows = [c \in {"quake", "pick"} |-> 0]
    /\ calls = 0
    /\ c_client = "none"
    /\ c_args = NoQuery
    /\ c_ret = QueryOutcome("none", "", <<>>, <<>>, <<>>)

DiskInOrder ==
    /\ files = [f \in FileNames |-> "ok"]
    /\ debugger = "continue"

WaveIdle ==
    /\ w_called = FALSE
    /\ w_args = NoArgs
    /\ w_ret = NoOutcome

\* the characters the filters of the model are written with
FilterAlphabet == {"A", "B", "*", "?", ",", "_", "%"}

InitMapper ==
    /\ m_c \in Strs(FilterAlphabet, MaxLen)
    /\ m_out = <<>>
    /\ m_done = FALSE
    /\ DiskInOrder
    /\ WaveIdle
    /\ BulkIdle
    /\ CatalogIdle

\* one call wildcard_mapper(m_c)
ApplyMapper ==
    /\ ~m_done
    /\ m_out' = wildcard_mapper(m_c)
    /\ m_done' = TRUE
    /\ UNCHANGED <<m_c, diskVars, waveVars, bulkVars, catalogVars>>

NextMapper == ApplyMapper

SpecMapper == InitMapper /\ [][NextMapper]_vars

(***************************************************************************)
(* C4: wildcard_mapper turns every `*` into `%` and every `?` into `_`,    *)
(* at every position, leaves every other character and the length alone,   *)
(* and on a string without `%` and `_` the translation is inverted by      *)
(* mapping `%` back to `*` and `_` back to `?`.                            *)
(***************************************************************************)
UnmapWildcards(s) ==
    [i \in 1..Len(s) |-> IF s[i] = "%" THEN "*" ELSE IF s[i] = "_" THEN "?" ELSE s[i]]

C4_MapperTranslates ==
    m_done =>
        /\ Len(m_out) = Len(m_c)
        /\ \A i \in 1..Len(m_c) :
              /\ (m_c[i] = "*" => m_out[i] = "%")
              /\ (m_c[i] = "?" => m_out[i] = "_")
              /\ (m_c[i] \notin {"*", "?"} => m_out[i] = m_c[i])
        /\ (~Contains(m_c, "%") /\ ~Contains(m_c, "_") => UnmapWildcards(m_out) = m_c)

\* a mapped string with a repeated `*` and a `?`, and no `%` or `_`
C4_Witness ==
    /\ m_done
    /\ Cardinality({i \in 1..Len(m_c) : m_c[i] = "*"}) >= 2
    /\ Contains(m_c, "?")
    /\ ~Contains(m_c, "%") /\ ~Contains(m_c, "_")
    /\ m_out # m_c

(***************************************************************************)
(* Calls of get_waveforms.                                                 *)
(***************************************************************************)
\* one call get_waveforms(**a), with a any of requests.  The client keeps
\* nothing from one call to the next, so a behaviour holds one call.
GetWaveforms(requests) ==
    /\ ~w_called
    /\ \E a \in requests :
          /\ w_called' = TRUE
          /\ w_args' = a
          /\ w_ret' = GetWaveformsResult(a, files, debugger)
    /\ UNCHANGED <<mapperVars, diskVars, bulkVars, catalogVars>>

MapperIdle ==
    /\ m_c = <<>>
    /\ m_out = <<>>
    /\ m_done = FALSE

\* the disks of the model: at most one segment file is not in order
FileStates ==
    {fs \in [FileNames -> {"ok", "missing", "unreadable", "corrupt"}] :
        Cardinality({f \in FileNames : fs[f] # "ok"}) <= 1}

Times == {Utc(t) : t \in 0..MaxTime} \cup {Num(0)}

\* requests that exercise the retrieval and the optional steps
WaveRequests ==
    [network : {<<"*">>}, station : {<<"A", "*">>, <<"A", "A", ",", "B">>},
     location : {<<"0">>}, channel : {<<"?">>},
     starttime : Times, endtime : Times, quality : {NoneVal, Str(<<"D">>)},
     minimumlength : {"None", "1"}, longestonly : {"None", "1"},
     filename : {"None", "out.mseed", "/nodir/out.mseed"},
     attach_response : BOOLEAN,
     inventory : {"absent", "Inventory", "sta.xml", "missing.xml", "42"}]

\* the debugger matters only when a decode error reaches breakpoint()
Disks ==
    /\ files \in FileStates
    /\ debugger \in {"continue", "quit"}
    /\ (debugger = "quit" => \E f \in FileNames : files[f] = "corrupt")

InitWave ==
    /\ MapperIdle
    /\ Disks
    /\ WaveIdle
    /\ BulkIdle
    /\ CatalogIdle

NextWave == GetWaveforms(WaveRequests)

SpecWave == InitWave /\ [][NextWave]_vars

\* requests that exercise the predicate compiler: one of the four filters is
\* any string of at most MaxLen characters, the others are short lists
SmallFilters == {<<"*">>, <<"A", ",", "B">>}
FilterTuples ==
    UNION {{[[m \in 1..4 |-> g] EXCEPT ![n] = v] : v \in Strs(FilterAlphabet, MaxLen)} :
              g \in SmallFilters, n \in 1..4}
CompileRequests ==
    {[NoArgs EXCEPT !.network = f[1], !.station = f[2], !.location = f[3],
                    !.channel = f[4], !.endtime = Utc(MaxTime), !.quality = q] :
        f \in FilterTuples, q \in {NoneVal, Str(<<"D">>)}}

InitCompile ==
    /\ MapperIdle
    /\ DiskInOrder
    /\ WaveIdle
    /\ BulkIdle
    /\ CatalogIdle

NextCompile == GetWaveforms(CompileRequests)

SpecCompile == InitCompile /\ [][NextCompile]_vars

(***************************************************************************)
(* Calls of get_waveforms_bulk.                                            *)
(***************************************************************************)
\* one call get_waveforms_bulk(bulk, **kw)
GetWaveformsBulk(lists, kwargs) ==
    /\ ~b_called
    /\ \E bulk \in lists, kw \in kwargs :
          /\ b_called' = TRUE
          /\ b_args' = [bulk |-> bulk, kw |-> kw]
          /\ b_ret' = GetWaveformsBulkResult(bulk, kw, files, debugger)
    /\ UNCHANGED <<mapperVars, diskVars, waveVars, catalogVars>>

\* the filter tuples of the model: rows 1 and 2, row 3, a window that ends
\* before it starts, row 2 alone
BulkTuples ==
    { <<<<"*">>, <<"A", "*">>, <<"0">>, <<"?">>, Utc(0), Utc(MaxTime)>>,
      <<<<"C">>, <<"B">>, <<"0">>, <<"N">>, Utc(0), Utc(MaxTime)>>,
      <<<<"*">>, <<"*">>, <<"*">>, <<"*">>, Utc(2), Utc(1)>>,
      <<<<"U">>, <<"A", "A", ",", "A", "B">>, <<"0">>, <<"Z">>, Utc(1), Utc(2)>> }

BulkLists == UNION {[1..n -> BulkTuples] : n \in 0..MaxBulk}

BulkKwargs ==
    {kw \in [is_list : BOOLEAN, filename : {"None", "out.mseed", "/nodir/out.mseed"},
             attach_response : BOOLEAN, inventory : {"absent", "Inventory", "sta.xml"}] :
        /\ (kw.inventory = "absent") = ~kw.attach_response
        /\ (~kw.is_list => kw.filename = "None" /\ ~kw.attach_response)}

InitBulk ==
    /\ MapperIdle
    /\ Disks
    /\ WaveIdle
    /\ BulkIdle
    /\ CatalogIdle

NextBulk == GetWaveformsBulk(BulkLists, BulkKwargs)

SpecBulk == InitBulk /\ [][NextBulk]_vars

(***************************************************************************)
(* C5: get_waveforms_bulk on a list in which exactly one tuple makes       *)
(* get_waveforms fail does not raise; it warns about that tuple, goes on   *)
(* with the tuples after it, and returns the streams of the other tuples   *)
(* put together, wherever in the list the failing tuple is.                *)
(***************************************************************************)
SubOutcome(n) ==
    GetWaveformsResult(SubRequest(b_args.bulk[n], b_args.kw), files, debugger)

RECURSIVE StreamsExcept(_, _)
StreamsExcept(n, skip) ==
    IF n > Len(b_args.bulk) THEN <<>>
    ELSE (IF n = skip THEN <<>> ELSE SubOutcome(n).stream) \o StreamsExcept(n + 1, skip)

FailingTuples == {n \in 1..Len(b_args.bulk) : SubOutcome(n).status = "raised"}

C5_BulkIsolatesFailure ==
    (b_called /\ b_args.kw.is_list /\ Cardinality(FailingTuples) = 1) =>
        LET bad == CHOOSE n \in FailingTuples : TRUE
        IN  /\ b_ret.status = "returned"
            /\ \E w \in 1..Len(b_ret.warnings) :
                  b_ret.warnings[w] = Warning("failed to run request", bad)
            /\ b_ret.stream = StreamsExcept(1, bad)

\* three tuples, the second with its window reversed, data before and after
C5_Witness ==
    /\ b_called /\ b_args.kw.is_list
    /\ Len(b_args.bulk) = 3
    /\ FailingTuples = {2}
    /\ b_args.bulk[2][5].t > b_args.bulk[2][6].t
    /\ SubOutcome(1).stream # <<>> /\ SubOutcome(3).stream # <<>>
    /\ Len(b_ret.stream) = Len(SubOutcome(1).stream) + Len(SubOutcome(3).stream)

(***************************************************************************)
(* C1: a get_waveforms call with starttime > endtime raises, and has       *)
(* executed no statement and opened no file, whatever its other arguments. *)
(***************************************************************************)
C1_BadRangeFailsFirst ==
    (w_called /\ w_args.starttime.t > w_args.endtime.t) =>
        /\ w_ret.status = "raised"
        /\ w_ret.executed = <<>>
        /\ w_ret.opened = <<>>

\* such a call, with filters that match rows whose files cannot be read
C1_Witness ==
    /\ w_called
    /\ w_args.starttime.t > w_args.endtime.t
    /\ w_args.quality # NoneVal
    /\ \E f \in FileNames : files[f] = "missing"
    /\ w_ret.exc = "ValueError"

(***************************************************************************)
(* C2: in the statement of a get_waveforms call, a comma-delimited         *)
(* network, station, location or channel value is one parenthesized unit   *)
(* holding one comparison per element (LIKE when the element has a         *)
(* wildcard token, = otherwise) with OR between them, and the units of the *)
(* four fields and the time conditions are joined by AND.                  *)
(***************************************************************************)
HasWildcardToken(elem) == \E i \in 1..Len(elem) : elem[i] \in {"*", "?", "%", "_"}

TranslateChars(elem) ==
    [i \in 1..Len(elem) |-> IF elem[i] = "*" THEN "%" ELSE IF elem[i] = "?" THEN "_" ELSE elem[i]]

IsOrGroupOf(unit, k, raw) ==
    LET elems == Split(raw, ",")
        N     == Len(elems)
    IN  /\ Len(unit) = 2 * N + 1
        /\ unit[1].t = "(" /\ unit[Len(unit)].t = ")"
        /\ \A j \in 1..N :
              unit[2 * j] = Cmp(k, IF HasWildcardToken(elems[j]) THEN "LIKE" ELSE "=",
                               TranslateChars(elems[j]))
        /\ \A j \in 1..(N-1) : unit[2 * j + 1].t = "OR"

C2_CommaListIsOrGroup ==
    (w_called /\ w_ret.executed # <<>>) =>
        LET where == w_ret.executed[1].where
            units == SplitTop(where, "AND")
        IN  /\ Len(units) = (IF w_args.quality.none THEN 6 ELSE 7)
            /\ units[5] = <<Cmp("endtime", ">", FmtTime(w_args.starttime.t))>>
            /\ units[6] = <<Cmp("starttime", "<", FmtTime(w_args.endtime.t))>>
            /\ \A n \in 1..4 :
                  Contains(w_args[NSLCKeys[n]], ",") =>
                      IsOrGroupOf(units[n], NSLCKeys[n], w_args[NSLCKeys[n]])

\* a station list of an exact code and a wildcard code, "B,?"
C2_Witness ==
    /\ w_called /\ w_ret.executed # <<>>
    /\ w_args.station = <<"B", ",", "?">>
    /\ w_args.network = <<"A", ",", "B">> /\ w_args.channel = <<"A", ",", "B">>
    /\ w_ret.executed[1].where[10] = Cmp("station", "LIKE", <<"_">>)

(***************************************************************************)
(* C3: the time conditions of the statement select a row exactly when      *)
(* row.endtime > starttime and row.starttime < endtime, both strict: a     *)
(* row that ends at the requested start or starts at the requested end is  *)
(* left out, a row that overlaps the window in part is selected.           *)
(***************************************************************************)
TimeTokens(where) ==
    SelectSeq(where, LAMBDA tok : tok.t = "cmp" /\ tok.k \in {"starttime", "endtime"})

\* every span a row can have, as the two columns the conditions read
Spans == {[t0 |-> x, t1 |-> y, starttime |-> FmtTime(x), endtime |-> FmtTime(y)] :
             x \in 0..MaxTime, y \in 0..MaxTime}

C3_StrictOverlap ==
    (w_called /\ w_ret.executed # <<>>) =>
        LET where == w_ret.executed[1].where
            tc    == TimeTokens(where)
        IN  /\ Len(tc) = 2
            /\ \A row \in Spans :
                  (\A n \in 1..2 : EvalCmp(tc[n], row))
                      <=> (row.t1 > w_args.starttime.t /\ row.t0 < w_args.endtime.t)
            /\ \A n \in 1..Len(tsindex) :
                  EvalExpr(where, tsindex[n]) =>
                      (tsindex[n].t1 > w_args.starttime.t /\ tsindex[n].t0 < w_args.endtime.t)

\* window [1,2]: row 1 ends at 1, row 3 starts at 2, row 2 overlaps in part
C3_Witness ==
    /\ w_called /\ w_ret.status = "returned"
    /\ w_args.starttime = Utc(1) /\ w_args.endtime = Utc(2)
    /\ w_args.station = <<"A", "*">> /\ w_args.quality = NoneVal
    /\ w_ret.stream = <<[id |-> 2, t0 |-> 1, t1 |-> 2]>>
    /\ \A f \in FileNames : files[f] = "ok"

(***************************************************************************)
(* Calls of QuakeClient.query and PickClient.query.                        *)
(***************************************************************************)
\* one call QuakeClient.query(r.keys, **r.kwargs), while fewer than limit
\* calls have been made
QuakeQuery(requests, limit) ==
    /\ calls < limit
    /\ \E r \in requests :
          LET res == QuakeQueryResult(r, q_keys, r.db)
          IN  /\ q_keys' = res.cache
              /\ shows' = [shows EXCEPT !["quake"] = @ + res.shown]
              /\ c_client' = "quake"
              /\ c_args' = r
              /\ c_ret' = res.out
    /\ calls' = calls + 1
    /\ UNCHANGED <<p_keys, mapperVars, diskVars, waveVars, bulkVars>>

\* one call PickClient.query(r.keys, **r.kwargs)
PickQuery(requests, limit) ==
    /\ calls < limit
    /\ \E r \in requests :
          LET res == PickQueryResult(r, p_keys, r.db)
          IN  /\ p_keys' = res.cache
              /\ shows' = [shows EXCEPT !["pick"] = @ + res.shown]
              /\ c_client' = "pick"
              /\ c_args' = r
              /\ c_ret' = res.out
    /\ calls' = calls + 1
    /\ UNCHANGED <<q_keys, mapperVars, diskVars, waveVars, bulkVars>>

\* the keyword values of the model
FilterValues ==
    {StrVal(<<"p">>), StrVal(<<"A", "*">>), StrVal(<<"A", "_">>), StrVal(<<"A", "%">>),
     UtcVal(1), NumVal(5)}

\* **kwargs: at most n keywords, each key once, in the order given
KwargsOver(keys, n) ==
    UNION {{kw \in [1..m -> [k : keys, v : FilterValues]] :
               \A i, j \in 1..m : i # j => kw[i].k # kw[j].k} : m \in 0..n}

KeyArgs == {[isstr |-> TRUE, cols |-> <<"*">>], [isstr |-> FALSE, cols |-> <<"timestamp">>]}

QuakeRequests ==
    [keys : KeyArgs, db : {"up", "show", "select"},
     kwargs : KwargsOver({"mintime", "contributor", "minlatitude", "foo"}, MaxKw)]

PickRequests ==
    [keys : KeyArgs, db : {"up", "show", "select"},
     kwargs : KwargsOver({"station", "phase", "mintime", "foo"}, MaxKw)]

\* a client that has not been queried yet, or one that has its columns
InitCatalog ==
    /\ MapperIdle
    /\ DiskInOrder
    /\ WaveIdle
    /\ BulkIdle
    /\ \E cached \in BOOLEAN :
          /\ q_keys = IF cached THEN KeysOf("catalog") ELSE KeysUnset
          /\ p_keys = IF cached THEN KeysOf(PickTable) ELSE KeysUnset
          /\ shows = [c \in {"quake", "pick"} |-> IF cached THEN 1 ELSE 0]
    /\ calls = 0
    /\ c_client = "none"
    /\ c_args = NoQuery
    /\ c_ret = QueryOutcome("none", "", <<>>, <<>>, <<>>)

NextCatalog ==
    \/ QuakeQuery(QuakeRequests, 1)
    \/ PickQuery(PickRequests, 1)

SpecCatalog == InitCatalog /\ [][NextCatalog]_vars

\* sequences of calls on fresh clients
CacheKwargs(client) ==
    IF client = "quake"
    THEN {<<>>, <<[k |-> "contributor", v |-> StrVal(<<"p">>)]>>}
    ELSE {<<>>, <<[k |-> "station", v |-> StrVal(<<"A", "*">>)]>>,
          <<[k |-> "foo", v |-> StrVal(<<"p">>)]>>}

CacheRequests(client) ==
    [keys : KeyArgs, db : {"up", "show", "select"}, kwargs : CacheKwargs(client)]

InitCache ==
    /\ MapperIdle
    /\ DiskInOrder
    /\ WaveIdle
    /\ BulkIdle
    /\ CatalogIdle

NextCache ==
    \/ QuakeQuery(CacheRequests("quake"), MaxCalls)
    \/ PickQuery(CacheRequests("pick"), MaxCalls)

SpecCache == InitCache /\ [][NextCache]_vars

(***************************************************************************)
(* C6: in get_waveforms, a matched row whose file cannot be opened or read *)
(* or whose bytes cannot be decoded does not end the retrieval: the call   *)
(* returns, the segments of the other matched rows are in the stream, and  *)
(* a warning tells of the failing row.                                     *)
(***************************************************************************)
MatchedRows == SelectRows(tsindex, w_ret.executed[1].where)

C6_RecordFailureIsolated ==
    ( /\ w_called /\ w_ret.executed # <<>>
      /\ w_args.minimumlength = "None" /\ w_args.longestonly = "None"
      /\ ~w_args.attach_response /\ w_args.filename = "None"
      /\ \E n \in 1..Len(MatchedRows) : files[MatchedRows[n].filename] # "ok" )
    =>  /\ w_ret.status = "returned"
        /\ \A n \in 1..Len(MatchedRows) :
              files[MatchedRows[n].filename] = "ok" =>
                  \E m \in 1..Len(w_ret.stream) :
                      w_ret.stream[m] = Decode(MatchedRows[n], w_args.starttime, w_args.endtime)
        /\ w_ret.warnings # <<>>

(***************************************************************************)
(* C8: in get_waveforms, when the retrieval has succeeded, a failing       *)
(* optional step (an inventory that cannot be read or is neither an        *)
(* Inventory nor a path; a stream that cannot be written to filename)      *)
(* never makes the call raise: a warning is issued and the stream is       *)
(* returned.                                                               *)
(***************************************************************************)
RetrievalSucceeds ==
    /\ w_called /\ w_ret.executed # <<>>
    /\ w_args.minimumlength = "None" /\ w_args.longestonly = "None"
    /\ \A n \in 1..Len(MatchedRows) : files[MatchedRows[n].filename] = "ok"

AttachFails ==
    /\ w_args.attach_response
    /\ w_args.inventory \in {"missing.xml", "42"}

WriteFails ==
    /\ w_args.filename # "None"
    /\ w_args.filename \notin WritablePaths

C8_OptionalStepsNeverFatal ==
    (RetrievalSucceeds /\ (AttachFails \/ WriteFails)) =>
        /\ w_ret.status = "returned"
        /\ w_ret.warnings # <<>>
        /\ w_ret.stream = [n \in 1..Len(MatchedRows) |->
                              Decode(MatchedRows[n], w_args.starttime, w_args.endtime)]

(***************************************************************************)
(* C7: a PickClient.query call with an unsupported filter (a str under a   *)
(* key outside station, network, location, channel, evaluation_mode,       *)
(* source_id, phase; a UTCDateTime under a key outside mintime, maxtime;   *)
(* a value of another type) raises, and no statement is executed during    *)
(* the call, whatever the other filters and whether or not the client has  *)
(* been queried before.  Stated here for the calls the database answers    *)
(* on a client that holds its column list already, which issue no SHOW     *)
(* COLUMNS: a first call issues that statement before it reads a filter.   *)
(***************************************************************************)
Unsupported(item) ==
    \/ item.v.ty = "str" /\ item.k \notin (PickEqualityKeys \cup {"phase"})
    \/ item.v.ty = "utc" /\ item.k \notin {"mintime", "maxtime"}
    \/ item.v.ty \notin {"str", "utc"}

C7_UnknownPickKeyRaises ==
    ( /\ c_client = "pick" /\ c_args.db = "up"
      /\ \A i \in 1..Len(c_ret.executed) : c_ret.executed[i].sql # "SHOW COLUMNS"
      /\ \E i \in 1..Len(c_args.kwargs) : Unsupported(c_args.kwargs[i]) ) =>
        /\ c_ret.status = "raised"
        /\ c_ret.executed = <<>>

(***************************************************************************)
(* C9 as stated: QuakeClient.query and PickClient.query both reject a str  *)
(* filter value holding `_` or `%` with the unsupported-wildcard error,    *)
(* and send no predicate holding such a value to the database.             *)
(***************************************************************************)
HasSqlWildcard(val) == val.ty = "str" /\ (Contains(val.s, "_") \/ Contains(val.s, "%"))

SqlWildcardFilters == {i \in 1..Len(c_args.kwargs) : HasSqlWildcard(c_args.kwargs[i].v)}

SelectsOf(executed) == {i \in 1..Len(executed) : executed[i].sql = "SELECT"}

WildcardError == "ValueError: Only wildcards ? and * are supported."

C9_BothBuildersRejectSqlWildcards ==
    (c_client \in {"quake", "pick"} /\ SqlWildcardFilters # {}) =>
        /\ c_ret.status = "raised"
        /\ SelectsOf(c_ret.executed) = {}

(***************************************************************************)
(* C9 as amended: PickClient.query with a str filter value holding `_` or  *)
(* `%` raises and sends no SELECT; the error is the unsupported-wildcard   *)
(* error when the call has not failed before that keyword (at SHOW COLUMNS *)
(* or at an earlier keyword).  QuakeClient.query has no such test: its     *)
(* contributor value goes into the equality predicate as it is.            *)
(***************************************************************************)
\* a keyword PickClient.query accepts
Accepted(item) ==
    \/ /\ item.v.ty = "str" /\ item.k \in (PickEqualityKeys \cup {"phase"})
       /\ ~HasSqlWildcard(item.v) /\ ~Contains(item.v.s, "-")
    \/ item.v.ty = "utc" /\ item.k \in {"mintime", "maxtime"}

C9_PickRejectsSqlWildcards ==
    /\ (c_client = "pick" /\ SqlWildcardFilters # {}) =>
          LET first == CHOOSE i \in SqlWildcardFilters : \A j \in SqlWildcardFilters : i <= j
          IN  /\ c_ret.status = "raised"
              /\ SelectsOf(c_ret.executed) = {}
              /\ ( /\ c_ret.exc # "mysql.connector.Error"
                   /\ \A j \in 1..(first - 1) : Accepted(c_args.kwargs[j]) )
                 => c_ret.exc = WildcardError
    /\ ( /\ c_client = "quake" /\ c_args.db = "up"
         /\ Len(c_args.kwargs) = 1 /\ c_args.kwargs[1].k = "contributor" )
       => /\ c_ret.status = "returned"
          /\ c_ret.executed[Len(c_ret.executed)].where
                = <<Cmp("contributor", "=", Text(c_args.kwargs[1].v))>>

\* a pick query whose second keyword holds `_`, after an accepted first one
C9_Witness ==
    /\ c_client = "pick"
    /\ Len(c_args.kwargs) = 2
    /\ Accepted(c_args.kwargs[1])
    /\ c_args.kwargs[2] = [k |-> "station", v |-> StrVal(<<"A", "_">>)]
    /\ c_ret.exc = WildcardError
    /\ c_ret.executed = <<>>

(***************************************************************************)
(* C10: over the query calls on one QuakeClient or PickClient, the         *)
(* database answers SHOW COLUMNS at most once; a call issues it, as its    *)
(* first statement, exactly when _keys is not set yet (so does the first   *)
(* call); once _keys is set every call issues at most its SELECT, and      *)
(* _keys never changes again.                                              *)
(***************************************************************************)
ShowsOf(executed) == {i \in 1..Len(executed) : executed[i].sql = "SHOW COLUMNS"}

SchemaStep ==
    /\ shows'["quake"] <= 1 /\ shows'["pick"] <= 1
    /\ (q_keys.set => q_keys' = q_keys)
    /\ (p_keys.set => p_keys' = p_keys)
    /\ (calls' = calls + 1 =>
          LET before == IF c_client' = "quake" THEN q_keys ELSE p_keys
              after  == IF c_client' = "quake" THEN q_keys' ELSE p_keys'
          IN  /\ (before.set => ShowsOf(c_ret'.executed) = {})
              /\ (~before.set => ShowsOf(c_ret'.executed) = {1})
              /\ (calls = 0 => ShowsOf(c_ret'.executed) = {1})
              /\ (after.set <=> (before.set \/ shows'[c_client'] > shows[c_client']))
              /\ Cardinality(SelectsOf(c_ret'.executed)) <= 1)

====
